---- MODULE Spec2Model ----
(***************************************************************************)
(* Rooted labelled tree of src/tree/core.rs: the Tree struct (root, nodes, *)
(* children, parents) and its operations add_node, swap_labels and         *)
(* prune_and_reattach, together with the queries is_valid, subtree_size    *)
(* and get_descendants.                                                    *)
(*                                                                         *)
(* A HashMap is a function whose DOMAIN is its key set; a HashSet is a set.*)
(* Every operation is an operator from a tree record (and arguments) to a  *)
(* record [res, tree]: the Result it returns and the struct it leaves.     *)
(***************************************************************************)
EXTENDS Integers, FiniteSets, Sequences, TLC

\* Number of node labels the callers draw arguments from.
NumLabels == 4

Labels == 0 .. (NumLabels - 1)

VARIABLES root, nodes, children, parents, call, result, pre, wire, trav

vars == <<root, nodes, children, parents, call, result, pre, wire, trav>>

----------------------------------------------------------------------------
\* HashMap helpers

EmptyMap == [k \in {} |-> 0]

MapInsert(m, k, v) == [x \in (DOMAIN m) \cup {k} |-> IF x = k THEN v ELSE m[x]]

MapRemove(m, k) == [x \in (DOMAIN m) \ {k} |-> m[x]]

\* nothing has been serialized
NoWire == [some |-> FALSE]

\* no traversal is in progress
NoTrav == [active |-> FALSE, stack |-> <<>>, descendants |-> {}, expanded |-> <<>>]

\* Result values
Ok(t) == [res |-> "Ok", tree |-> t]

Err(e, t) == [res |-> e, tree |-> t]

\* unwrap() on None
Panic(t) == [res |-> "Panic", tree |-> t]

----------------------------------------------------------------------------
\* The struct and its queries

\* The struct as it is now
Tree == [root |-> root, nodes |-> nodes, children |-> children, parents |-> parents]

len(t) == Cardinality(t.nodes)

new(r) == [root |-> r, nodes |-> {r}, children |-> EmptyMap, parents |-> EmptyMap]

get_root(t) == t.root

contains(t, node) == node \in t.nodes

\* a plausible slip: the child is not entered in nodes
unsafe_add_node_no_insert(t, parent, child) ==
    [t EXCEPT !.children = MapInsert(t.children, parent,
                              (IF parent \in DOMAIN t.children
                                  THEN t.children[parent] ELSE {}) \cup {child}),
              !.parents = MapInsert(t.parents, child, parent)]

\* a plausible slip: the child is not entered in the parent's children set
unsafe_add_node_no_child(t, parent, child) ==
    [t EXCEPT !.nodes = t.nodes \cup {child},
              !.parents = MapInsert(t.parents, child, parent)]

\* a plausible slip: the parents entry of the child is not written
unsafe_add_node_no_parent(t, parent, child) ==
    [t EXCEPT !.nodes = t.nodes \cup {child},
              !.children = MapInsert(t.children, parent,
                              (IF parent \in DOMAIN t.children
                                  THEN t.children[parent] ELSE {}) \cup {child})]

unsafe_add_node(t, parent, child) ==
    [t EXCEPT !.nodes = t.nodes \cup {child},
              !.children = MapInsert(t.children, parent,
                              (IF parent \in DOMAIN t.children
                                  THEN t.children[parent] ELSE {}) \cup {child}),
              !.parents = MapInsert(t.parents, child, parent)]

\* a plausible slip: the child is looked up before the parent
add_node_child_first(t, parent, child) ==
    IF contains(t, child) THEN Err("NodeAlreadyExists", t)
    ELSE IF ~contains(t, parent) THEN Err("NodeNotFound", t)
    ELSE Ok(unsafe_add_node(t, parent, child))

add_node(t, parent, child) ==
    IF ~contains(t, parent) THEN Err("NodeNotFound", t)
    ELSE IF contains(t, child) THEN Err("NodeAlreadyExists", t)
    ELSE Ok(unsafe_add_node(t, parent, child))

RECURSIVE dfs(_, _), dfs_children(_, _)

\* the loop `for &child in children { size += dfs(tree, child) }`
dfs_children(t, set) ==
    IF set = {} THEN 0
    ELSE LET child == CHOOSE x \in set : TRUE
         IN dfs(t, child) + dfs_children(t, set \ {child})

dfs(t, node) ==
    1 + (IF node \in DOMAIN t.children THEN dfs_children(t, t.children[node]) ELSE 0)

subtree_size(t, node) ==
    IF contains(t, node) THEN [res |-> "Ok", value |-> dfs(t, node)]
    ELSE [res |-> "NodeNotFound", value |-> 0]

\* a plausible slip: check 2 walks the members of nodes, not the keys of children
is_valid_check2_over_nodes(t) ==
    LET r == get_root(t)
        check1 == \A node \in t.nodes : ~(node # r /\ node \notin DOMAIN t.parents)
        check2 == \A parent \in t.nodes \cap DOMAIN t.children :
                    \A child \in t.children[parent] :
                       child \in DOMAIN t.parents /\ t.parents[child] = parent
        check3 == \A node \in t.nodes :
                    /\ ~(node \in DOMAIN t.parents /\ t.parents[node] = node)
                    /\ ~(node \in DOMAIN t.children /\ node \in t.children[node])
    IN check1 /\ check2 /\ check3

is_valid(t) ==
    LET r == get_root(t)
        check1 == \A node \in t.nodes : ~(node # r /\ node \notin DOMAIN t.parents)
        check2 == \A parent \in DOMAIN t.children :
                    \A child \in t.children[parent] :
                       child \in DOMAIN t.parents /\ t.parents[child] = parent
        check3 == \A node \in t.nodes :
                    /\ ~(node \in DOMAIN t.parents /\ t.parents[node] = node)
                    /\ ~(node \in DOMAIN t.children /\ node \in t.children[node])
    IN check1 /\ check2 /\ check3

get_parent(t, node) ==
    IF node \in DOMAIN t.parents THEN <<t.parents[node]>> ELSE <<>>

\* a plausible slip: the relation is tested in both directions
is_child_either_way(t, child, parent) ==
    \/ (child \in DOMAIN t.parents /\ t.parents[child] = parent)
    \/ (parent \in DOMAIN t.parents /\ t.parents[parent] = child)

is_child(t, child, parent) ==
    IF child \in DOMAIN t.parents THEN t.parents[child] = parent ELSE FALSE

is_parent(t, parent, child) == is_child(t, child, parent)

----------------------------------------------------------------------------
\* get_descendants

RECURSIVE collect_descendants(_, _, _), collect_loop(_, _, _)

\* a plausible slip: the children are collected but never descended into
collect_loop_shallow(t, set, descendants) == descendants \cup set

\* the loop over the children of one node, threading the visited set
collect_loop(t, set, descendants) ==
    IF set = {} THEN descendants
    ELSE LET child == CHOOSE x \in set : TRUE
             d1 == IF child \notin descendants
                      THEN collect_descendants(t, child, descendants \cup {child})
                      ELSE descendants
         IN collect_loop(t, set \ {child}, d1)

collect_descendants(t, node, descendants) ==
    IF node \in DOMAIN t.children
       THEN collect_loop(t, t.children[node], descendants)
       ELSE descendants

get_descendants(t, node) == collect_descendants(t, node, {})

----------------------------------------------------------------------------
\* swap_labels

RECURSIVE add_all(_, _, _)

\* the loops `for node in set.iter() { self.unsafe_add_node(parent, *node) }`
add_all(t, parent, set) ==
    IF set = {} THEN t
    ELSE LET node == CHOOSE x \in set : TRUE
         IN add_all(unsafe_add_node(t, parent, node), parent, set \ {node})

\* a plausible slip: only the second label is compared with the root
swap_root_second_only(t, i, j) ==
    IF t.root = j THEN [t EXCEPT !.root = i] ELSE t

\* a plausible slip: only the first label is compared with the root
swap_root_first_only(t, i, j) ==
    IF t.root = i THEN [t EXCEPT !.root = j] ELSE t

\* root handling at the head of swap_labels
swap_root(t, i, j) ==
    IF t.root = i THEN [t EXCEPT !.root = j]
    ELSE IF t.root = j THEN [t EXCEPT !.root = i]
    ELSE t

\* a plausible slip: the grandchildren are not attached again
swap_adjacent_drop_grandchildren(t, child, parent) ==
    LET has_grandchildren == child \in DOMAIN t.children
        grandchildren == IF has_grandchildren THEN t.children[child] ELSE {}
        t1 == [t EXCEPT !.children = MapRemove(t.children, child)]
    IN IF parent \notin DOMAIN t1.children THEN Panic(t1)
       ELSE
       LET siblings == t1.children[parent]
           t2 == [t1 EXCEPT !.children = MapRemove(t1.children, parent)]
           t3 == [t2 EXCEPT !.parents = MapRemove(t2.parents, child)]
           has_grandparent == parent \in DOMAIN t3.parents
           grandparent == t3.parents[parent]
           t4 == [t3 EXCEPT !.parents = MapRemove(t3.parents, parent)]
       IN IF has_grandparent /\ grandparent \notin DOMAIN t4.children THEN Panic(t4)
          ELSE
          LET t5 == IF has_grandparent
                       THEN unsafe_add_node(
                               [t4 EXCEPT !.children[grandparent] = @ \ {parent}],
                               grandparent, child)
                       ELSE t4
              t6 == unsafe_add_node(t5, child, parent)
              t7 == t6
              t8 == add_all(t7, child, siblings \ {child})
          IN Ok(t8)

\* a plausible slip: the guard `*node != child` of the siblings loop is missing
swap_adjacent_no_filter(t, child, parent) ==
    LET has_grandchildren == child \in DOMAIN t.children
        grandchildren == IF has_grandchildren THEN t.children[child] ELSE {}
        t1 == [t EXCEPT !.children = MapRemove(t.children, child)]
    IN IF parent \notin DOMAIN t1.children THEN Panic(t1)
       ELSE
       LET siblings == t1.children[parent]
           t2 == [t1 EXCEPT !.children = MapRemove(t1.children, parent)]
           t3 == [t2 EXCEPT !.parents = MapRemove(t2.parents, child)]
           has_grandparent == parent \in DOMAIN t3.parents
           grandparent == t3.parents[parent]
           t4 == [t3 EXCEPT !.parents = MapRemove(t3.parents, parent)]
       IN IF has_grandparent /\ grandparent \notin DOMAIN t4.children THEN Panic(t4)
          ELSE
          LET t5 == IF has_grandparent
                       THEN unsafe_add_node(
                               [t4 EXCEPT !.children[grandparent] = @ \ {parent}],
                               grandparent, child)
                       ELSE t4
              t6 == unsafe_add_node(t5, child, parent)
              t7 == IF has_grandchildren THEN add_all(t6, parent, grandchildren) ELSE t6
              t8 == add_all(t7, child, siblings)
          IN Ok(t8)

\* the adjacent case: `child` is a child of `parent`
swap_adjacent(t, child, parent) ==
    LET has_grandchildren == child \in DOMAIN t.children
        grandchildren == IF has_grandchildren THEN t.children[child] ELSE {}
        t1 == [t EXCEPT !.children = MapRemove(t.children, child)]
    IN IF parent \notin DOMAIN t1.children THEN Panic(t1)
       ELSE
       LET siblings == t1.children[parent]
           t2 == [t1 EXCEPT !.children = MapRemove(t1.children, parent)]
           t3 == [t2 EXCEPT !.parents = MapRemove(t2.parents, child)]
           has_grandparent == parent \in DOMAIN t3.parents
           grandparent == t3.parents[parent]
           t4 == [t3 EXCEPT !.parents = MapRemove(t3.parents, parent)]
       IN IF has_grandparent /\ grandparent \notin DOMAIN t4.children THEN Panic(t4)
          ELSE
          LET t5 == IF has_grandparent
                       THEN unsafe_add_node(
                               [t4 EXCEPT !.children[grandparent] = @ \ {parent}],
                               grandparent, child)
                       ELSE t4
              t6 == unsafe_add_node(t5, child, parent)
              t7 == IF has_grandchildren THEN add_all(t6, parent, grandchildren) ELSE t6
              t8 == add_all(t7, child, siblings \ {child})
          IN Ok(t8)

\* a plausible slip: j's entry is written even when i had no children entry
swap_nonadjacent_keep_empty(t, i, j) ==
    LET has_children_i == i \in DOMAIN t.children
        children_i == IF has_children_i THEN t.children[i] ELSE {}
        t1 == [t EXCEPT !.children = MapRemove(t.children, i)]
        has_children_j == j \in DOMAIN t1.children
        children_j == IF has_children_j THEN t1.children[j] ELSE {}
        t2 == [t1 EXCEPT !.children = MapRemove(t1.children, j)]
        has_parent_i == i \in DOMAIN t2.parents
        parent_i == t2.parents[i]
        t3 == [t2 EXCEPT !.parents = MapRemove(t2.parents, i)]
        has_parent_j == j \in DOMAIN t3.parents
        parent_j == t3.parents[j]
        t4 == [t3 EXCEPT !.parents = MapRemove(t3.parents, j)]
        t5 == add_all([t4 EXCEPT !.children = MapInsert(t4.children, j, {})], j, children_i)
        t6 == IF has_children_j THEN add_all(t5, i, children_j) ELSE t5
    IN IF has_parent_i /\ has_parent_j /\ parent_i = parent_j
          THEN Ok([t6 EXCEPT !.parents = MapInsert(MapInsert(t6.parents, i, parent_i),
                                                   j, parent_i)])
          ELSE
          LET t7 == IF has_parent_i
                       THEN LET u == [t6 EXCEPT !.parents = MapInsert(t6.parents, j, parent_i)]
                            IN IF parent_i \in DOMAIN u.children
                                  THEN [u EXCEPT !.children[parent_i] = (@ \ {i}) \cup {j}]
                                  ELSE u
                       ELSE t6
              t8 == IF has_parent_j
                       THEN LET u == [t7 EXCEPT !.parents = MapInsert(t7.parents, i, parent_j)]
                            IN IF parent_j \in DOMAIN u.children
                                  THEN [u EXCEPT !.children[parent_j] = (@ \ {j}) \cup {i}]
                                  ELSE u
                       ELSE t7
          IN Ok(t8)

\* a plausible slip: the children list of j's former parent is not updated
swap_nonadjacent_stale_list(t, i, j) ==
    LET has_children_i == i \in DOMAIN t.children
        children_i == IF has_children_i THEN t.children[i] ELSE {}
        t1 == [t EXCEPT !.children = MapRemove(t.children, i)]
        has_children_j == j \in DOMAIN t1.children
        children_j == IF has_children_j THEN t1.children[j] ELSE {}
        t2 == [t1 EXCEPT !.children = MapRemove(t1.children, j)]
        has_parent_i == i \in DOMAIN t2.parents
        parent_i == t2.parents[i]
        t3 == [t2 EXCEPT !.parents = MapRemove(t2.parents, i)]
        has_parent_j == j \in DOMAIN t3.parents
        parent_j == t3.parents[j]
        t4 == [t3 EXCEPT !.parents = MapRemove(t3.parents, j)]
        t5 == IF has_children_i THEN add_all(t4, j, children_i) ELSE t4
        t6 == IF has_children_j THEN add_all(t5, i, children_j) ELSE t5
    IN IF has_parent_i /\ has_parent_j /\ parent_i = parent_j
          THEN Ok([t6 EXCEPT !.parents = MapInsert(MapInsert(t6.parents, i, parent_i),
                                                   j, parent_i)])
          ELSE
          LET t7 == IF has_parent_i
                       THEN LET u == [t6 EXCEPT !.parents = MapInsert(t6.parents, j, parent_i)]
                            IN IF parent_i \in DOMAIN u.children
                                  THEN [u EXCEPT !.children[parent_i] = (@ \ {i}) \cup {j}]
                                  ELSE u
                       ELSE t6
              t8 == IF has_parent_j
                       THEN [t7 EXCEPT !.parents = MapInsert(t7.parents, i, parent_j)]
                       ELSE t7
          IN Ok(t8)

\* the case where neither label is the parent of the other
swap_nonadjacent(t, i, j) ==
    LET has_children_i == i \in DOMAIN t.children
        children_i == IF has_children_i THEN t.children[i] ELSE {}
        t1 == [t EXCEPT !.children = MapRemove(t.children, i)]
        has_children_j == j \in DOMAIN t1.children
        children_j == IF has_children_j THEN t1.children[j] ELSE {}
        t2 == [t1 EXCEPT !.children = MapRemove(t1.children, j)]
        has_parent_i == i \in DOMAIN t2.parents
        parent_i == t2.parents[i]
        t3 == [t2 EXCEPT !.parents = MapRemove(t2.parents, i)]
        has_parent_j == j \in DOMAIN t3.parents
        parent_j == t3.parents[j]
        t4 == [t3 EXCEPT !.parents = MapRemove(t3.parents, j)]
        t5 == IF has_children_i THEN add_all(t4, j, children_i) ELSE t4
        t6 == IF has_children_j THEN add_all(t5, i, children_j) ELSE t5
    IN IF has_parent_i /\ has_parent_j /\ parent_i = parent_j
          THEN Ok([t6 EXCEPT !.parents = MapInsert(MapInsert(t6.parents, i, parent_i),
                                                   j, parent_i)])
          ELSE
          LET t7 == IF has_parent_i
                       THEN LET u == [t6 EXCEPT !.parents = MapInsert(t6.parents, j, parent_i)]
                            IN IF parent_i \in DOMAIN u.children
                                  THEN [u EXCEPT !.children[parent_i] = (@ \ {i}) \cup {j}]
                                  ELSE u
                       ELSE t6
              t8 == IF has_parent_j
                       THEN LET u == [t7 EXCEPT !.parents = MapInsert(t7.parents, i, parent_j)]
                            IN IF parent_j \in DOMAIN u.children
                                  THEN [u EXCEPT !.children[parent_j] = (@ \ {j}) \cup {i}]
                                  ELSE u
                       ELSE t7
          IN Ok(t8)

\* a plausible slip: the `i == j` shortcut is taken before the presence check
swap_labels_same_first(t, i, j) ==
    IF i = j THEN Ok(t)
    ELSE IF ~contains(t, i) \/ ~contains(t, j) THEN Err("NodeNotFound", t)
    ELSE
    LET t1 == swap_root(t, i, j)
        is_i_child_j == is_child(t1, i, j)
        is_j_child_i == is_child(t1, j, i)
    IN IF is_i_child_j \/ is_j_child_i
          THEN IF is_i_child_j /\ is_j_child_i
                  THEN Err("TopologyError", t1)
                  ELSE swap_adjacent(t1, IF is_i_child_j THEN i ELSE j,
                                         IF is_i_child_j THEN j ELSE i)
          ELSE swap_nonadjacent(t1, i, j)

swap_labels(t, i, j) ==
    IF ~contains(t, i) \/ ~contains(t, j) THEN Err("NodeNotFound", t)
    ELSE IF i = j THEN Ok(t)
    ELSE
    LET t1 == swap_root(t, i, j)
        is_i_child_j == is_child(t1, i, j)
        is_j_child_i == is_child(t1, j, i)
    IN IF is_i_child_j \/ is_j_child_i
          THEN IF is_i_child_j /\ is_j_child_i
                  THEN Err("TopologyError", t1)
                  ELSE swap_adjacent(t1, IF is_i_child_j THEN i ELSE j,
                                         IF is_i_child_j THEN j ELSE i)
          ELSE swap_nonadjacent(t1, i, j)

----------------------------------------------------------------------------
\* prune_and_reattach

\* a plausible slip: the node is never taken out of its old parent's set
detach_no_remove(t, node) == t

\* a plausible slip: an emptied children set is left in the map
detach_keep_empty(t, node) ==
    LET parent == t.parents[node]
    IN IF parent \in DOMAIN t.children
          THEN [t EXCEPT !.children[parent] = @ \ {node}]
          ELSE t

\* detaching `node` from its current parent's children set
detach(t, node) ==
    LET parent == t.parents[node]
    IN IF parent \in DOMAIN t.children
          THEN LET set == t.children[parent] \ {node}
               IN IF set = {}
                     THEN [t EXCEPT !.children = MapRemove(t.children, parent)]
                     ELSE [t EXCEPT !.children[parent] = set]
          ELSE t

\* a plausible slip: reattaching below the current parent is refused
prune_and_reattach_reject_current_parent(t, node, new_parent) ==
    IF ~contains(t, node) \/ ~contains(t, new_parent) THEN Err("NodeNotFound", t)
    ELSE IF node = new_parent THEN Err("NodeAlreadyExists", t)
    ELSE IF new_parent \in get_descendants(t, node) THEN Err("TopologyError", t)
    ELSE IF node \notin DOMAIN t.parents THEN Panic(t)
    ELSE IF t.parents[node] = new_parent THEN Err("NodeAlreadyExists", t)
    ELSE Ok(unsafe_add_node(detach(t, node), new_parent, node))

\* a plausible slip: the self-reattachment check is made before the presence check
prune_and_reattach_self_first(t, node, new_parent) ==
    IF node = new_parent THEN Err("NodeAlreadyExists", t)
    ELSE IF ~contains(t, node) \/ ~contains(t, new_parent) THEN Err("NodeNotFound", t)
    ELSE IF new_parent \in get_descendants(t, node) THEN Err("TopologyError", t)
    ELSE IF node \notin DOMAIN t.parents THEN Panic(t)
    ELSE Ok(unsafe_add_node(detach(t, node), new_parent, node))

\* a plausible slip: the descendant check is missing
prune_and_reattach_no_topology(t, node, new_parent) ==
    IF ~contains(t, node) \/ ~contains(t, new_parent) THEN Err("NodeNotFound", t)
    ELSE IF node = new_parent THEN Err("NodeAlreadyExists", t)
    ELSE IF node \notin DOMAIN t.parents THEN Panic(t)
    ELSE Ok(unsafe_add_node(detach(t, node), new_parent, node))

\* a plausible slip: the subtree is moved before the descendant check is made
prune_and_reattach_late_check(t, node, new_parent) ==
    IF ~contains(t, node) \/ ~contains(t, new_parent) THEN Err("NodeNotFound", t)
    ELSE IF node = new_parent THEN Err("NodeAlreadyExists", t)
    ELSE IF node \notin DOMAIN t.parents THEN Err("TopologyError", t)
    ELSE LET moved == unsafe_add_node(detach(t, node), new_parent, node)
         IN IF new_parent \in get_descendants(t, node)
               THEN Err("TopologyError", moved)
               ELSE Ok(moved)

prune_and_reattach(t, node, new_parent) ==
    IF ~contains(t, node) \/ ~contains(t, new_parent) THEN Err("NodeNotFound", t)
    ELSE IF node = new_parent THEN Err("NodeAlreadyExists", t)
    ELSE IF new_parent \in get_descendants(t, node) THEN Err("TopologyError", t)
    ELSE IF node \notin DOMAIN t.parents THEN Panic(t)
    ELSE Ok(unsafe_add_node(detach(t, node), new_parent, node))

----------------------------------------------------------------------------
\* The state machine: a caller that constructs a tree and then calls the
\* three mutating operations with arbitrary labels.

Init ==
    \E r \in Labels :
        /\ root = r
        /\ nodes = {r}
        /\ children = EmptyMap
        /\ parents = EmptyMap
        /\ call = [op |-> "new", a |-> r, b |-> r]
        /\ result = "Ok"
        /\ pre = new(r)
        /\ wire = NoWire
        /\ trav = NoTrav

\* the struct becomes what the call left; the call and its result are recorded
Apply(opname, a, b, out) ==
    /\ pre' = Tree
    /\ call' = [op |-> opname, a |-> a, b |-> b]
    /\ result' = out.res
    /\ root' = out.tree.root
    /\ nodes' = out.tree.nodes
    /\ children' = out.tree.children
    /\ parents' = out.tree.parents
    /\ wire' = NoWire
    /\ trav' = trav

AddNode ==
    \E parent \in Labels, child \in Labels :
        Apply("add_node", parent, child, add_node(Tree, parent, child))

SwapLabels ==
    \E i \in Labels, j \in Labels :
        Apply("swap_labels", i, j, swap_labels(Tree, i, j))

PruneAndReattach ==
    \E node \in Labels, new_parent \in Labels :
        Apply("prune_and_reattach", node, new_parent,
              prune_and_reattach(Tree, node, new_parent))

Next == AddNode \/ SwapLabels \/ PruneAndReattach

Spec == Init /\ [][Next]_vars

----------------------------------------------------------------------------
----------------------------------------------------------------------------
\* Synthetic corruption: the four fields hold arbitrary values over a small
\* label set (the struct is Deserialize, so any such value can be constructed),
\* and the validator is called on them.

\* Number of labels the corrupted fields are drawn from.
NumCorruptLabels == 2

CorruptLabels == 0 .. (NumCorruptLabels - 1)

\* every HashMap with keys in K and values in V
PartialMaps(K, V) == UNION {[D -> V] : D \in SUBSET K}

InitCorrupt ==
    /\ root \in CorruptLabels
    /\ nodes \in SUBSET CorruptLabels
    /\ children \in PartialMaps(CorruptLabels, SUBSET CorruptLabels)
    /\ parents \in PartialMaps(CorruptLabels, CorruptLabels)
    /\ call = [op |-> "corrupt", a |-> 0, b |-> 0]
    /\ result = "None"
    /\ pre = [root |-> root, nodes |-> nodes, children |-> children, parents |-> parents]
    /\ wire = NoWire
    /\ trav = NoTrav

\* a call of is_valid(): the struct is only read, the answer is recorded
IsValid ==
    /\ pre' = Tree
    /\ call' = [op |-> "is_valid", a |-> 0, b |-> 0]
    /\ result' = IF is_valid(Tree) THEN "true" ELSE "false"
    /\ UNCHANGED <<root, nodes, children, parents, wire, trav>>

NextCorrupt == IsValid

SpecCorrupt == InitCorrupt /\ [][NextCorrupt]_vars

\* swap_labels called once on a corrupted struct
SwapCorrupted ==
    /\ call.op = "corrupt"
    /\ \E i \in CorruptLabels : \E j \in CorruptLabels :
          Apply("swap_labels", i, j, swap_labels(Tree, i, j))

NextCorruptSwap == SwapCorrupted

SpecCorruptSwap == InitCorrupt /\ [][NextCorruptSwap]_vars

----------------------------------------------------------------------------
\* get_descendants taken one step at a time, over any children map

\* a call stack this deep is never reached by the traversal
MaxDepth == NumCorruptLabels + 2

\* a call collect_descendants(node, ..): the children its loop has yet to take
frame(t, node) ==
    [node |-> node,
     todo |-> IF node \in DOMAIN t.children THEN t.children[node] ELSE {}]

\* a plausible slip: the child is descended into whether or not it was seen
loop_body_unguarded(tr, t, child) ==
    LET depth == Len(tr.stack)
        rest == [tr EXCEPT !.stack[depth].todo = @ \ {child}]
    IN [rest EXCEPT !.descendants = @ \cup {child},
                    !.stack = Append(@, frame(t, child)),
                    !.expanded = Append(@, child)]

\* one iteration of `for &child in children` in the innermost call:
\* `if descendants.insert(child) { self.collect_descendants(child, ..) }`
loop_body(tr, t, child) ==
    LET depth == Len(tr.stack)
        rest == [tr EXCEPT !.stack[depth].todo = @ \ {child}]
    IN IF child \notin tr.descendants
          THEN [rest EXCEPT !.descendants = @ \cup {child},
                            !.stack = Append(@, frame(t, child)),
                            !.expanded = Append(@, child)]
          ELSE rest

\* only the children map matters to the traversal
InitDescend ==
    /\ root = 0
    /\ nodes = CorruptLabels
    /\ children \in PartialMaps(CorruptLabels, SUBSET CorruptLabels)
    /\ parents = EmptyMap
    /\ call = [op |-> "corrupt", a |-> 0, b |-> 0]
    /\ result = "None"
    /\ pre = [root |-> root, nodes |-> nodes, children |-> children, parents |-> parents]
    /\ wire = NoWire
    /\ trav = NoTrav

\* get_descendants(node) is entered: an empty set and the first call
GetDescendants ==
    /\ call.op = "corrupt"
    /\ \E node \in CorruptLabels :
          /\ trav' = [active |-> TRUE, stack |-> <<frame(Tree, node)>>,
                      descendants |-> {}, expanded |-> <<node>>]
          /\ call' = [op |-> "get_descendants", a |-> node, b |-> 0]
    /\ result' = "Running"
    /\ pre' = Tree
    /\ UNCHANGED <<root, nodes, children, parents, wire>>

\* the innermost loop takes its next child, in the set's iteration order
CollectLoop ==
    /\ trav.active
    /\ Len(trav.stack) < MaxDepth
    /\ \E child \in trav.stack[Len(trav.stack)].todo :
          trav' = loop_body(trav, Tree, child)
    /\ UNCHANGED <<root, nodes, children, parents, call, result, pre, wire>>

\* the innermost loop is over: the call returns, the last one to the caller
CollectReturn ==
    /\ trav.active
    /\ trav.stack[Len(trav.stack)].todo = {}
    /\ LET rest == SubSeq(trav.stack, 1, Len(trav.stack) - 1)
       IN /\ trav' = [trav EXCEPT !.stack = rest, !.active = (rest # <<>>)]
          /\ result' = IF rest = <<>> THEN "Returned" ELSE result
    /\ UNCHANGED <<root, nodes, children, parents, call, pre, wire>>

NextDescend == GetDescendants \/ CollectLoop \/ CollectReturn

\* the traversal runs on one thread, which takes its next step
SpecDescend ==
    InitDescend /\ [][NextDescend]_vars /\ WF_vars(CollectLoop \/ CollectReturn)

----------------------------------------------------------------------------
\* Construction helpers of src/tree/ops.rs

\* an Err result carries no tree
NoTree == [root |-> -1, nodes |-> {}, children |-> EmptyMap, parents |-> EmptyMap]

RECURSIVE star_loop(_, _, _), star_loop_chained(_, _, _), star_loop_ignore_errors(_, _, _)

\* a plausible slip: each label is attached below the previous one
star_loop_chained(t, r, labels) ==
    IF labels = <<>> THEN Ok(t)
    ELSE LET out == add_node(t, r, Head(labels))
         IN IF out.res # "Ok" THEN Err(out.res, NoTree)
            ELSE star_loop_chained(out.tree, Head(labels), Tail(labels))

\* a plausible slip: the Result of add_node is dropped instead of propagated
star_loop_ignore_errors(t, r, labels) ==
    IF labels = <<>> THEN Ok(t)
    ELSE star_loop_ignore_errors(add_node(t, r, Head(labels)).tree, r, Tail(labels))

\* `for node in nodes { tree.add_node(root, node)?; }`
star_loop(t, r, labels) ==
    IF labels = <<>> THEN Ok(t)
    ELSE LET out == add_node(t, r, Head(labels))
         IN IF out.res # "Ok" THEN Err(out.res, NoTree)
            ELSE star_loop(out.tree, r, Tail(labels))

create_star_tree(r, labels) == star_loop(new(r), r, labels)

RECURSIVE chain_loop(_, _, _), chain_loop_no_advance(_, _, _)

\* a plausible slip: `current = node` is missing
chain_loop_no_advance(t, current, labels) ==
    IF labels = <<>> THEN Ok(t)
    ELSE LET out == add_node(t, current, Head(labels))
         IN IF out.res # "Ok" THEN Err(out.res, NoTree)
            ELSE chain_loop_no_advance(out.tree, current, Tail(labels))

\* `for node in iter { tree.add_node(current, node)?; current = node; }`
chain_loop(t, current, labels) ==
    IF labels = <<>> THEN Ok(t)
    ELSE LET out == add_node(t, current, Head(labels))
         IN IF out.res # "Ok" THEN Err(out.res, NoTree)
            ELSE chain_loop(out.tree, Head(labels), Tail(labels))

create_chain_tree(labels) ==
    IF labels = <<>> THEN Panic(NoTree)
    ELSE chain_loop(new(Head(labels)), Head(labels), Tail(labels))

\* Longest label list handed to the construction helpers.
MaxLen == 3

LabelLists == UNION {[1 .. n -> Labels] : n \in 0 .. MaxLen}

\* the arguments are chosen; no tree exists yet
InitOps ==
    \E r \in Labels, labels \in LabelLists :
        /\ root = NoTree.root
        /\ nodes = NoTree.nodes
        /\ children = NoTree.children
        /\ parents = NoTree.parents
        /\ call = [op |-> "input", a |-> r, b |-> labels]
        /\ result = "None"
        /\ pre = NoTree
        /\ wire = NoWire
        /\ trav = NoTrav

CreateStarTree ==
    /\ call.op = "input"
    /\ Apply("create_star_tree", call.a, call.b, create_star_tree(call.a, call.b))

CreateChainTree ==
    /\ call.op = "input"
    /\ Apply("create_chain_tree", call.a, call.b, create_chain_tree(call.b))

NextOps == CreateStarTree \/ CreateChainTree

SpecOps == InitOps /\ [][NextOps]_vars

----------------------------------------------------------------------------
\* Serialized form (serde derive on Tree, with _map_to_vec / _vec_to_map for
\* children).  A HashSet or HashMap is written in the order in which it happens
\* to iterate; that order is not a function of its contents (it depends on the
\* hasher's keys and the table's history), so it is an input of serialization:
\* `rank` orders the labels as the collections of the tree being serialized
\* iterate over them.

RECURSIVE iter_order(_, _)

\* the elements of S in increasing rank
iter_order(S, rank) ==
    IF S = {} THEN <<>>
    ELSE LET x == CHOOSE e \in S : \A y \in S : rank[e] <= rank[y]
         IN <<x>> \o iter_order(S \ {x}, rank)

\* BTreeMap iteration: ascending keys
ascending(S) == iter_order(S, [x \in S |-> x])

\* a plausible slip: the key is written into its own vector
_map_to_vec_with_key(map, rank) ==
    LET keys == ascending(DOMAIN map)
    IN [k \in 1 .. Len(keys) |-> <<keys[k], <<keys[k]>> \o iter_order(map[keys[k]], rank)>>]

\* _map_to_vec: a BTreeMap from each key to the Vec collected from its set
_map_to_vec(map, rank) ==
    LET keys == ascending(DOMAIN map)
    IN [k \in 1 .. Len(keys) |-> <<keys[k], iter_order(map[keys[k]], rank)>>]

\* _vec_to_map: each Vec is collected into a HashSet, the pairs into a HashMap
_vec_to_map(ser) ==
    [key \in {ser[n][1] : n \in 1 .. Len(ser)} |->
        LET n == CHOOSE m \in 1 .. Len(ser) : ser[m][1] = key
        IN {ser[n][2][x] : x \in 1 .. Len(ser[n][2])}]

serialize(t, rank) ==
    [some |-> TRUE,
     root |-> t.root,
     nodes |-> iter_order(t.nodes, rank),
     children |-> _map_to_vec(t.children, rank),
     parents |-> LET keys == iter_order(DOMAIN t.parents, rank)
                 IN [k \in 1 .. Len(keys) |-> <<keys[k], t.parents[keys[k]]>>]]

deserialize(w) ==
    [root |-> w.root,
     nodes |-> {w.nodes[n] : n \in 1 .. Len(w.nodes)},
     children |-> _vec_to_map(w.children),
     parents |-> [key \in {w.parents[n][1] : n \in 1 .. Len(w.parents)} |->
                    LET n == CHOOSE m \in 1 .. Len(w.parents) : w.parents[m][1] = key
                    IN w.parents[n][2]]]

\* the tree is written out, its collections iterating in some order
Serialize ==
    \E rank \in Permutations(Labels) :
        /\ wire' = serialize(Tree, rank)
        /\ trav' = trav
        /\ pre' = Tree
        /\ call' = [op |-> "serialize", a |-> 0, b |-> 0]
        /\ result' = "Ok"
        /\ UNCHANGED <<root, nodes, children, parents>>

\* the tree is replaced by the one read back from the serialized form
Deserialize ==
    /\ wire.some
    /\ LET t == deserialize(wire)
       IN /\ root' = t.root
          /\ nodes' = t.nodes
          /\ children' = t.children
          /\ parents' = t.parents
    /\ pre' = Tree
    /\ call' = [op |-> "deserialize", a |-> 0, b |-> 0]
    /\ result' = "Ok"
    /\ wire' = wire
    /\ trav' = trav

NextSerde == AddNode \/ SwapLabels \/ PruneAndReattach \/ Serialize \/ Deserialize

SpecSerde == Init /\ [][NextSerde]_vars

TypeOK ==
    /\ root \in Labels
    /\ nodes \subseteq Labels
    /\ DOMAIN children \subseteq Labels
    /\ \A p \in DOMAIN children : children[p] \subseteq Labels
    /\ DOMAIN parents \subseteq Labels
    /\ \A c \in DOMAIN parents : parents[c] \in Labels
    /\ result \in {"Ok", "NodeNotFound", "NodeAlreadyExists", "TopologyError", "Panic"}

----------------------------------------------------------------------------
\* Helpers for stating the properties

Errors == {"NodeNotFound", "NodeAlreadyExists", "TopologyError"}

\* the (parent, child) pairs held by the children map
ChildEdges(t) == UNION {{<<p, c>> : c \in t.children[p]} : p \in DOMAIN t.children}

\* the (parent, child) pairs held by the parents map
ParentEdges(t) == {<<t.parents[c], c>> : c \in DOMAIN t.parents}

\* the transposition (i j)
Transpose(i, j, x) == IF x = i THEN j ELSE IF x = j THEN i ELSE x

RenameEdges(E, i, j) == {<<Transpose(i, j, e[1]), Transpose(i, j, e[2])>> : e \in E}

RECURSIVE ancestors_upto(_, _, _)

\* the labels met by following parents from n, at most k steps
ancestors_upto(t, n, k) ==
    IF k = 0 \/ n \notin DOMAIN t.parents THEN {}
    ELSE {t.parents[n]} \cup ancestors_upto(t, t.parents[n], k - 1)

Ancestors(t, n) == ancestors_upto(t, n, Cardinality(t.nodes))

\* d lies strictly below n
IsStrictDescendant(t, d, n) == n \in Ancestors(t, d)

RECURSIVE path_up(_, _, _)

\* the sequence n, parent(n), parent(parent(n)), ... of at most k + 1 labels
path_up(t, n, k) ==
    IF k = 0 \/ n \notin DOMAIN t.parents THEN <<n>>
    ELSE <<n>> \o path_up(t, t.parents[n], k - 1)

RECURSIVE reach(_, _, _)

\* the labels reachable from the frontier by following children
reach(t, frontier, seen) ==
    IF frontier = {} THEN seen
    ELSE LET next == UNION {IF n \in DOMAIN t.children THEN t.children[n] ELSE {}
                               : n \in frontier}
         IN reach(t, next \ (seen \cup frontier), seen \cup frontier)

RECURSIVE tree_from_edges(_, _)

\* the tree obtained from t by add_node calls alone, attaching every pair of E
\* whose parent is already present
tree_from_edges(t, E) ==
    LET ready == {e \in E : e[1] \in t.nodes /\ e[2] \notin t.nodes}
    IN IF ready = {} THEN t
       ELSE LET e == CHOOSE x \in ready : TRUE
            IN tree_from_edges(add_node(t, e[1], e[2]).tree, E \ {e})

Range(seq) == {seq[k] : k \in 1 .. Len(seq)}

\* pairwise distinct
Distinct(seq) == \A x \in 1 .. Len(seq), y \in 1 .. Len(seq) : x # y => seq[x] # seq[y]

RECURSIVE add_nodes(_, _)

\* `tree.add_node(p, c).unwrap()` for each pair of a list, in order
add_nodes(t, edges) ==
    IF edges = <<>> THEN t
    ELSE add_nodes(add_node(t, edges[1][1], edges[1][2]).tree, Tail(edges))

\* the tree 0-1-2-3, 0-10-11 of the unit tests
simple_tree ==
    add_nodes(new(0), <<<<0, 1>>, <<1, 2>>, <<2, 3>>, <<0, 10>>, <<10, 11>>>>)

\* the tree the test star_4_nodes expects
star_4_nodes_expected ==
    add_nodes(new(15), <<<<15, 3>>, <<15, 5>>, <<15, 8>>>>)

\* the tree the test chain_3_nodes expects
chain_3_nodes_expected ==
    add_nodes(new(3), <<<<3, 5>>, <<5, 8>>>>)

\* the tree the test test_prune_1 expects
prune_1_expected ==
    add_nodes(new(0), <<<<0, 10>>, <<10, 11>>, <<10, 1>>, <<1, 2>>, <<2, 3>>>>)

\* the tree the test test_prune_3 expects
prune_3_expected ==
    add_nodes(new(0), <<<<0, 10>>, <<10, 11>>, <<0, 1>>, <<1, 2>>, <<10, 3>>>>)

\* the tree the test swap_10_11 expects
swap_10_11_expected ==
    add_nodes(new(0), <<<<0, 1>>, <<1, 2>>, <<2, 3>>, <<0, 11>>, <<11, 10>>>>)

\* the tree the test swap_1_10 expects
swap_1_10_expected ==
    add_nodes(new(0), <<<<0, 10>>, <<10, 2>>, <<2, 3>>, <<0, 1>>, <<1, 11>>>>)

\* the tree the test swap_1_2 expects
swap_1_2_expected ==
    add_nodes(new(0), <<<<0, 2>>, <<2, 1>>, <<1, 3>>, <<0, 10>>, <<10, 11>>>>)

\* the tree the test swap_0_1 expects
swap_0_1_expected ==
    add_nodes(new(1), <<<<1, 0>>, <<0, 2>>, <<2, 3>>, <<1, 10>>, <<10, 11>>>>)

\* the tree the test swap_0_2 expects
swap_0_2_expected ==
    add_nodes(new(2), <<<<2, 1>>, <<1, 0>>, <<0, 3>>, <<2, 10>>, <<10, 11>>>>)

\* the tree the test swap_1_3 expects
swap_1_3_expected ==
    add_nodes(new(0), <<<<0, 3>>, <<3, 2>>, <<2, 1>>, <<0, 10>>, <<10, 11>>>>)

----------------------------------------------------------------------------
\* C1: in every state reachable from Tree::new(r) by add_node, swap_labels and
\* prune_and_reattach calls with any arguments, successful or not, is_valid()
\* returns true.
C1_IsValidAlways == is_valid(Tree)

C1_Witness ==
    /\ call.op = "swap_labels" /\ result = "Ok" /\ call.a # call.b
    /\ Cardinality(nodes) >= 3
    /\ Tree # pre

\* C2: whenever add_node, swap_labels or prune_and_reattach returns an error,
\* root, nodes, children and parents are what they were before the call.
C2_ErrorLeavesTreeUnchanged == (result \in Errors) => (Tree = pre)

C2_Witness ==
    /\ call.op = "prune_and_reattach" /\ result = "TopologyError"
    /\ call.a # pre.root
    /\ Tree = pre

\* C3: swap_labels(i, j) with distinct present labels returns Ok and yields the
\* tree renamed by the transposition (i j): nodes unchanged, the root renamed,
\* and the edges (in children and in parents) exactly the renamed old edges;
\* on the unit-test tree swap_labels(1, 3) gives edges (0,3),(3,2),(2,1),
\* (0,10),(10,11) under root 0.
C3_SwapIsRenaming ==
    /\ (call.op = "swap_labels" /\ call.a # call.b
           /\ call.a \in pre.nodes /\ call.b \in pre.nodes)
       => /\ result = "Ok"
          /\ nodes = pre.nodes
          /\ root = Transpose(call.a, call.b, pre.root)
          /\ ChildEdges(Tree) = RenameEdges(ChildEdges(pre), call.a, call.b)
          /\ ParentEdges(Tree) = RenameEdges(ParentEdges(pre), call.a, call.b)
    /\ swap_labels(simple_tree, 1, 3) = Ok(swap_1_3_expected)

\* i and j unrelated, with different parents, neither the root
C3_Witness ==
    /\ call.op = "swap_labels" /\ result = "Ok" /\ call.a # call.b
    /\ call.a \in DOMAIN pre.parents /\ call.b \in DOMAIN pre.parents
    /\ pre.parents[call.a] # pre.parents[call.b]
    /\ pre.parents[call.a] # call.b /\ pre.parents[call.b] # call.a
    /\ call.a \notin get_descendants(pre, call.b)
    /\ call.b \notin get_descendants(pre, call.a)

\* C4: swap_labels is an involution: after swap_labels(i, j) on present labels
\* returned Ok, a second swap_labels(i, j) returns Ok and gives back the tree
\* from before the first call.
C4_SwapInvolution ==
    (call.op = "swap_labels" /\ call.a \in pre.nodes /\ call.b \in pre.nodes)
    => /\ result = "Ok"
       /\ swap_labels(Tree, call.a, call.b) = Ok(pre)

\* a swap of a parent with its child that has changed the tree
C4_Witness ==
    /\ call.op = "swap_labels" /\ result = "Ok"
    /\ is_child(pre, call.a, call.b)
    /\ Tree # pre

\* C5: prune_and_reattach(node, new_parent) with both present, distinct, and
\* new_parent not a descendant of node returns Ok; node's parent is then
\* new_parent, node is in children[new_parent] and in no other children set,
\* and root, nodes, every other node's parent and the subtree of node are
\* unchanged; the result is the tree add_node builds from the new edge set.
C5_PruneMovesSubtree ==
    /\ (call.op = "prune_and_reattach" /\ call.a # call.b
           /\ call.a \in pre.nodes /\ call.b \in pre.nodes
           /\ ~IsStrictDescendant(pre, call.b, call.a))
       => /\ result = "Ok"
          /\ get_parent(Tree, call.a) = <<call.b>>
          /\ call.b \in DOMAIN children /\ call.a \in children[call.b]
          /\ \A p \in (DOMAIN children) \ {call.b} : call.a \notin children[p]
          /\ root = pre.root
          /\ nodes = pre.nodes
          /\ \A n \in nodes \ {call.a} : get_parent(Tree, n) = get_parent(pre, n)
          /\ get_descendants(Tree, call.a) = get_descendants(pre, call.a)
          /\ \A d \in get_descendants(pre, call.a) \cup {call.a} :
                /\ (d \in DOMAIN children) = (d \in DOMAIN pre.children)
                /\ d \in DOMAIN children => children[d] = pre.children[d]
          /\ Tree = tree_from_edges(new(pre.root),
                       {e \in ParentEdges(pre) : e[2] # call.a}
                          \cup {<<call.b, call.a>>})
    /\ prune_and_reattach(simple_tree, 1, 10) = Ok(prune_1_expected)
    /\ prune_and_reattach(simple_tree, 3, 10) = Ok(prune_3_expected)

\* the last child of its parent moves, with its own child, to another parent
C5_Witness ==
    /\ call.op = "prune_and_reattach" /\ result = "Ok"
    /\ pre.parents[call.a] # call.b
    /\ pre.parents[call.a] \notin DOMAIN children
    /\ call.a \in DOMAIN pre.children

\* C6: prune_and_reattach(node, d) with d a strict descendant of node returns
\* TopologyError and leaves root, nodes, children and parents unchanged.
C6_PruneIntoOwnSubtreeFails ==
    (call.op = "prune_and_reattach" /\ call.a \in pre.nodes
        /\ IsStrictDescendant(pre, call.b, call.a))
    => (result = "TopologyError" /\ Tree = pre)

\* d is a grandchild of node and node is not the root
C6_Witness ==
    /\ call.op = "prune_and_reattach" /\ result = "TopologyError"
    /\ call.a # pre.root
    /\ ~is_child(pre, call.b, call.a)
    /\ IsStrictDescendant(pre, call.b, call.a)

\* C7: children and parents agree in both directions, and no label is its own
\* parent or a member of its own children set.
C7_ChildrenParentsAgree ==
    /\ \A p \in Labels, c \in Labels :
          (p \in DOMAIN children /\ c \in children[p])
             <=> (c \in DOMAIN parents /\ parents[c] = p)
    /\ \A n \in Labels :
          /\ ~(n \in DOMAIN parents /\ parents[n] = n)
          /\ ~(n \in DOMAIN children /\ n \in children[n])

\* two siblings, one of them with a child, have been swapped
C7_Witness ==
    /\ call.op = "swap_labels" /\ result = "Ok" /\ call.a # call.b
    /\ call.a \in DOMAIN pre.parents /\ call.b \in DOMAIN pre.parents
    /\ pre.parents[call.a] = pre.parents[call.b]
    /\ call.a \in DOMAIN pre.children

\* C8: the structure is a single rooted tree: nodes is root plus what is
\* reachable from root through children, and following parents from any node
\* reaches root in fewer than |nodes| steps without repeating a label.
C8_SingleRootedTree ==
    /\ nodes = reach(Tree, {root}, {})
    /\ \A n \in nodes :
          LET path == path_up(Tree, n, Cardinality(nodes))
          IN /\ path[Len(path)] = root
             /\ Len(path) - 1 < Cardinality(nodes)
             /\ \A x \in 1 .. Len(path), y \in 1 .. Len(path) :
                   x # y => path[x] # path[y]

\* a subtree has been moved below a node that was not its parent
C8_Witness ==
    /\ call.op = "prune_and_reattach" /\ result = "Ok"
    /\ Tree # pre
    /\ call.a \in DOMAIN children
    /\ Cardinality(nodes) >= 4

\* C9: root is in nodes and the key set of parents is nodes minus the root.
C9_ParentsKeys ==
    /\ root \in nodes
    /\ DOMAIN parents = nodes \ {root}

\* the root label has been swapped with a label that is not its child
C9_Witness ==
    /\ call.op = "swap_labels" /\ result = "Ok"
    /\ pre.root = call.b /\ call.a # call.b
    /\ ~is_child(pre, call.a, call.b)
    /\ root = call.a

\* C10: subtree_size(get_root()) returns Ok(len()).
C10_RootSubtreeIsWholeTree ==
    subtree_size(Tree, get_root(Tree)) = [res |-> "Ok", value |-> len(Tree)]

\* a node with a sibling has been moved elsewhere
C10_Witness ==
    /\ call.op = "prune_and_reattach" /\ result = "Ok"
    /\ pre.parents[call.a] # call.b
    /\ pre.parents[call.a] \in DOMAIN children
    /\ Cardinality(nodes) >= 3

\* C11: add_node(parent, child) returns NodeNotFound when parent is absent (even
\* if child is present), NodeAlreadyExists when parent is present and child is
\* present (also when child = parent), and otherwise Ok with exactly: child
\* added to nodes and to children[parent], parents[child] = parent; root and
\* every other entry unchanged.
C11_AddNodeContract ==
    (call.op = "add_node") =>
       IF call.a \notin pre.nodes THEN result = "NodeNotFound"
       ELSE IF call.b \in pre.nodes THEN result = "NodeAlreadyExists"
       ELSE /\ result = "Ok"
            /\ root = pre.root
            /\ nodes = pre.nodes \cup {call.b}
            /\ DOMAIN children = (DOMAIN pre.children) \cup {call.a}
            /\ children[call.a] =
                  (IF call.a \in DOMAIN pre.children THEN pre.children[call.a] ELSE {})
                     \cup {call.b}
            /\ \A p \in (DOMAIN pre.children) \ {call.a} : children[p] = pre.children[p]
            /\ DOMAIN parents = (DOMAIN pre.parents) \cup {call.b}
            /\ parents[call.b] = call.a
            /\ \A c \in DOMAIN pre.parents : parents[c] = pre.parents[c]

\* a second child has been added to a parent that is not the root
C11_Witness ==
    /\ call.op = "add_node" /\ result = "Ok"
    /\ call.a \in DOMAIN pre.children
    /\ call.a # root
    /\ nodes # pre.nodes

\* C12: swap_labels(i, j) returns NodeNotFound exactly when i or j is absent
\* (also for i = j absent); swap_labels(i, i) with i present returns Ok and
\* leaves root, nodes, children and parents unchanged.
C12_SwapNotFoundAndSelfSwap ==
    (call.op = "swap_labels") =>
       /\ (result = "NodeNotFound")
             <=> (call.a \notin pre.nodes \/ call.b \notin pre.nodes)
       /\ (call.a = call.b /\ call.a \in pre.nodes) => (result = "Ok" /\ Tree = pre)

\* swap_labels(i, i) has been called with i absent
C12_Witness ==
    /\ call.op = "swap_labels" /\ call.a = call.b
    /\ call.a \notin pre.nodes
    /\ result = "NodeNotFound"

\* C13: prune_and_reattach fails in three ways, in this precedence:
\* NodeNotFound if a label is absent (even when node = new_parent), else
\* NodeAlreadyExists if node = new_parent, else TopologyError if new_parent is a
\* descendant of node; in every other case it returns Ok.
C13_PruneErrorPrecedence ==
    (call.op = "prune_and_reattach") =>
       result = (IF call.a \notin pre.nodes \/ call.b \notin pre.nodes
                    THEN "NodeNotFound"
                 ELSE IF call.a = call.b THEN "NodeAlreadyExists"
                 ELSE IF IsStrictDescendant(pre, call.b, call.a) THEN "TopologyError"
                 ELSE "Ok")

\* prune_and_reattach(x, x) has been called with x absent
C13_Witness ==
    /\ call.op = "prune_and_reattach" /\ call.a = call.b
    /\ call.a \notin pre.nodes
    /\ result = "NodeNotFound"

\* C14: prune_and_reattach(root, x) is rejected for every x: NodeNotFound if x
\* is absent, NodeAlreadyExists if x = root, TopologyError otherwise; the parent
\* lookup is never reached with node = root and the tree is unchanged.
C14_PruneRootRejected ==
    (call.op = "prune_and_reattach" /\ call.a = pre.root) =>
       /\ result = (IF call.b \notin pre.nodes THEN "NodeNotFound"
                    ELSE IF call.b = pre.root THEN "NodeAlreadyExists"
                    ELSE "TopologyError")
       /\ Tree = pre

\* the root was to be reattached below one of its grandchildren
C14_Witness ==
    /\ call.op = "prune_and_reattach" /\ call.a = pre.root
    /\ call.b \in pre.nodes /\ call.b # pre.root
    /\ ~is_child(pre, call.b, call.a)
    /\ result = "TopologyError"

\* C15: in any state, corrupted ones included, in which some children[p]
\* contains a label c whose parents entry is missing or is not p, is_valid()
\* returns false.
C15_IsValidRejectsMismatch ==
    (call.op = "is_valid"
        /\ \E p \in DOMAIN children : \E c \in children[p] :
              c \notin DOMAIN parents \/ parents[c] # p)
    => result = "false"

\* only check 2 can reject: every member of nodes has passed checks 1 and 3
C15_Witness ==
    /\ call.op = "is_valid" /\ result = "false"
    /\ nodes = {root}
    /\ parents = EmptyMap
    /\ \E p \in DOMAIN children : p \notin children[p] /\ children[p] # {}

\* C16: create_star_tree(root, labels) with pairwise distinct labels, none equal
\* to root, returns Ok(tree) with that root, every label a direct child of root
\* and a leaf, subtree_size(root) = |labels| + 1 and subtree_size(l) = 1; the
\* tree is the one Tree::new(root) and add_node(root, l) for each l build.
C16_StarTree ==
    /\ (call.op = "create_star_tree" /\ Distinct(call.b) /\ call.a \notin Range(call.b))
       => /\ result = "Ok"
          /\ root = call.a
          /\ nodes = {call.a} \cup Range(call.b)
          /\ \A l \in Range(call.b) :
                /\ get_parent(Tree, l) = <<call.a>>
                /\ l \in children[call.a]
                /\ l \notin DOMAIN children
                /\ subtree_size(Tree, l) = [res |-> "Ok", value |-> 1]
          /\ subtree_size(Tree, call.a) = [res |-> "Ok", value |-> Len(call.b) + 1]
          /\ Tree = add_nodes(new(call.a), [k \in 1 .. Len(call.b) |-> <<call.a, call.b[k]>>])
    /\ LET star == create_star_tree(0, <<10, 14, 20>>)
       IN /\ star.res = "Ok"
          /\ subtree_size(star.tree, 0) = [res |-> "Ok", value |-> 4]
          /\ subtree_size(star.tree, 14) = [res |-> "Ok", value |-> 1]
    /\ create_star_tree(15, <<3, 5, 8>>) = Ok(star_4_nodes_expected)

\* a star with three leaves has been built
C16_Witness ==
    /\ call.op = "create_star_tree" /\ result = "Ok"
    /\ Len(call.b) = 3
    /\ Cardinality(nodes) = 4

\* C17: create_chain_tree([l1, ..., ln]) with n >= 1 pairwise distinct labels
\* returns Ok(tree) with root l1 and the parent of l(k+1) equal to lk, so every
\* node has at most one child, ln is the only leaf, and
\* subtree_size(lk) = n - k + 1.
C17_ChainTree ==
    /\ (call.op = "create_chain_tree" /\ Len(call.b) >= 1 /\ Distinct(call.b))
       => LET n == Len(call.b)
          IN /\ result = "Ok"
             /\ root = call.b[1]
             /\ nodes = Range(call.b)
             /\ \A k \in 1 .. (n - 1) : get_parent(Tree, call.b[k + 1]) = <<call.b[k]>>
             /\ \A p \in DOMAIN children : Cardinality(children[p]) <= 1
             /\ {x \in nodes : x \notin DOMAIN children} = {call.b[n]}
             /\ \A k \in 1 .. n :
                   subtree_size(Tree, call.b[k]) = [res |-> "Ok", value |-> n - k + 1]
    /\ create_chain_tree(<<3, 5, 8>>) = Ok(chain_3_nodes_expected)

\* a chain of three labels has been built
C17_Witness ==
    /\ call.op = "create_chain_tree" /\ result = "Ok"
    /\ Len(call.b) = 3
    /\ Cardinality(nodes) = 3

\* C18: create_star_tree and create_chain_tree return NodeAlreadyExists and no
\* tree when the labels are not pairwise distinct; create_star_tree does the
\* same when a label equals root.
C18_BuildersRejectDuplicates ==
    ((call.op \in {"create_star_tree", "create_chain_tree"} /\ ~Distinct(call.b))
        \/ (call.op = "create_star_tree" /\ call.a \in Range(call.b)))
    => (result = "NodeAlreadyExists" /\ Tree = NoTree)

\* the chain's first label comes again after a different one
C18_Witness ==
    /\ call.op = "create_chain_tree" /\ result = "NodeAlreadyExists"
    /\ Len(call.b) = 3
    /\ call.b[1] = call.b[3] /\ call.b[1] # call.b[2]

\* C19: serializing a reachable tree (children as a key-ordered map from parent
\* to sequence of children, plus root, nodes and parents) and deserializing the
\* result yields an equal tree: root, children, parents and nodes are equal.
C19_RoundTrip ==
    /\ (call.op = "deserialize") => (Tree = pre)
    /\ wire.some => deserialize(wire) = Tree

\* a tree has been read back from a form that lists two siblings in
\* descending order
C19_Witness ==
    /\ call.op = "deserialize"
    /\ \E n \in 1 .. Len(wire.children) :
          /\ Len(wire.children[n][2]) >= 2
          /\ wire.children[n][2][1] > wire.children[n][2][2]
    /\ Cardinality(DOMAIN children) >= 2

\* C20: the serialized form of children is deterministic: keys ascending and
\* each parent's children in a fixed order, so two equal trees, whatever the
\* iteration order of their sets, give the same serialized children mapping.
C20_SerializedChildrenDeterministic ==
    [][(call.op = "serialize" /\ call'.op = "serialize")
          => wire'.children = wire.children]_vars

\* C21: nodes are never deleted: nodes only grows, a successful add_node adds
\* exactly its child label, and swap_labels and prune_and_reattach, successful
\* or not, leave nodes (and so len()) unchanged.
C21_NodesOnlyGrow ==
    /\ pre.nodes \subseteq nodes
    /\ (call.op = "add_node" /\ result = "Ok")
          => (nodes = pre.nodes \cup {call.b} /\ len(Tree) = len(pre) + 1)
    /\ (call.op = "add_node" /\ result # "Ok") => (nodes = pre.nodes)
    /\ (call.op \in {"swap_labels", "prune_and_reattach"})
          => (nodes = pre.nodes /\ len(Tree) = len(pre))

\* a third node has been added
C21_Witness ==
    /\ call.op = "add_node" /\ result = "Ok"
    /\ call.b \notin pre.nodes
    /\ len(Tree) >= 3

\* C25: adjacent swap: if C was a child of P, then afterwards P is a child of
\* C; C's parent is P's former parent (C is the root, without parents entry, if
\* P was the root) and that former parent's children hold C instead of P; the
\* children of P are the former children of C; the children of C are P and the
\* former children of P other than C.
C25_AdjacentSwap ==
    /\ \A C \in {call.a, call.b}, P \in {call.a, call.b} :
          (call.op = "swap_labels" /\ {C, P} = {call.a, call.b} /\ is_child(pre, C, P))
          => /\ result = "Ok"
             /\ is_child(Tree, P, C)
             /\ get_parent(Tree, C) = get_parent(pre, P)
             /\ (pre.root = P) => (root = C /\ C \notin DOMAIN parents)
             /\ (P \in DOMAIN pre.parents)
                   => children[pre.parents[P]]
                         = (pre.children[pre.parents[P]] \ {P}) \cup {C}
             /\ (P \in DOMAIN children) = (C \in DOMAIN pre.children)
             /\ (C \in DOMAIN pre.children) => (children[P] = pre.children[C])
             /\ C \in DOMAIN children
             /\ children[C] = {P} \cup (pre.children[P] \ {C})
    /\ swap_labels(simple_tree, 1, 2) = Ok(swap_1_2_expected)
    /\ swap_labels(simple_tree, 10, 11) = Ok(swap_10_11_expected)

\* the child had a child and a sibling, and the parent had a parent
C25_Witness ==
    /\ call.op = "swap_labels" /\ result = "Ok"
    /\ \E C \in {call.a, call.b}, P \in {call.a, call.b} :
          /\ is_child(pre, C, P)
          /\ C \in DOMAIN pre.children
          /\ P \in DOMAIN pre.parents

\* C26: root involvement: after a successful swap_labels(i, j), i # j, the root
\* is j if it was i, i if it was j, and unchanged otherwise; the new root has no
\* parents entry and the former root label has one.  On the unit-test tree
\* swap_labels(0, 1) gives root 1 with edges (1,0),(0,2),(2,3),(1,10),(10,11).
C26_RootInvolvement ==
    /\ (call.op = "swap_labels" /\ result = "Ok" /\ call.a # call.b)
       => /\ get_root(Tree) = (IF pre.root = call.a THEN call.b
                               ELSE IF pre.root = call.b THEN call.a
                               ELSE pre.root)
          /\ get_root(Tree) \notin DOMAIN parents
          /\ (pre.root \in {call.a, call.b}) => (pre.root \in DOMAIN parents)
    /\ swap_labels(simple_tree, 0, 1) = Ok(swap_0_1_expected)
    /\ swap_labels(simple_tree, 0, 2) = Ok(swap_0_2_expected)

\* the root label has been swapped with a grandchild of the root
C26_Witness ==
    /\ call.op = "swap_labels" /\ result = "Ok"
    /\ pre.root = call.b /\ call.a # call.b
    /\ call.a \in DOMAIN pre.parents
    /\ pre.parents[call.a] # call.b

\* C27: every key of children maps to a non-empty set: a label has a children
\* entry if and only if it has at least one child.
C27_NoEmptyChildrenEntry ==
    /\ \A p \in DOMAIN children : children[p] # {}
    /\ \A p \in Labels :
          (p \in DOMAIN children) <=> (\E c \in DOMAIN parents : parents[c] = p)

\* a label with children has been swapped with a leaf that is not its child
C27_Witness ==
    /\ call.op = "swap_labels" /\ result = "Ok"
    /\ call.a \in DOMAIN pre.children /\ call.b \notin DOMAIN pre.children
    /\ ~is_child(pre, call.b, call.a)
    /\ call.a \notin DOMAIN children

\* C28: the representation is canonical: a reachable tree is determined by its
\* root and its set of parent-child edges (it is the tree add_node builds from
\* them), so two trees with the same root and edges are equal whatever calls
\* produced them.
C28_CanonicalRepresentation ==
    /\ ChildEdges(Tree) = ParentEdges(Tree)
    /\ Tree = tree_from_edges(new(root), ParentEdges(Tree))
    /\ prune_and_reattach(simple_tree, 1, 10) = Ok(prune_1_expected)
    /\ swap_labels(simple_tree, 1, 10) = Ok(swap_1_10_expected)

\* the tree has been changed by a call other than add_node
C28_Witness ==
    /\ call.op \in {"swap_labels", "prune_and_reattach"} /\ result = "Ok"
    /\ Tree # pre
    /\ Cardinality(DOMAIN children) >= 2

\* C29: a successful prune_and_reattach(node, q) on a tree in which node's
\* parent was p is undone by prune_and_reattach(node, p), which returns Ok and
\* gives back the tree; prune_and_reattach(node, p) with p already the parent
\* returns Ok and leaves the tree as it was.
C29_PruneCanBeUndone ==
    /\ (call.op = "prune_and_reattach" /\ result = "Ok")
          => prune_and_reattach(Tree, call.a, pre.parents[call.a]) = Ok(pre)
    /\ (call.op = "prune_and_reattach" /\ call.a \in pre.nodes
           /\ is_child(pre, call.a, call.b))
          => (result = "Ok" /\ Tree = pre)

\* the node has been moved away from its parent
C29_Witness ==
    /\ call.op = "prune_and_reattach" /\ result = "Ok"
    /\ pre.parents[call.a] # call.b
    /\ Tree # pre

\* C30: swap_labels returns Ok for every pair of present labels: is_child(i, j)
\* and is_child(j, i) are never both true, so swap_labels never returns
\* TopologyError.
C30_SwapNeverTopologyError ==
    /\ \A i \in nodes, j \in nodes : ~(is_child(Tree, i, j) /\ is_child(Tree, j, i))
    /\ (call.op = "swap_labels") => (result # "TopologyError")
    /\ (call.op = "swap_labels" /\ call.a \in pre.nodes /\ call.b \in pre.nodes)
          => (result = "Ok")

\* the second label was the child of the first
C30_Witness ==
    /\ call.op = "swap_labels" /\ result = "Ok"
    /\ is_child(pre, call.b, call.a)
    /\ is_child(Tree, call.a, call.b)

\* C23: is_valid() is a sound oracle for invariants 1-3: on every assignment
\* of the four fields, if is_valid() returns true then the root has no parents
\* entry and every other member of nodes has one, every parents entry
\* parents[c] = p has c in children[p] and conversely, and no node is its own
\* parent or child.
C23_IsValidSound ==
    (call.op = "is_valid" /\ result = "true")
    => /\ root \notin DOMAIN parents
       /\ \A n \in nodes \ {root} : n \in DOMAIN parents
       /\ \A c \in DOMAIN parents :
             parents[c] \in DOMAIN children /\ c \in children[parents[c]]
       /\ \A p \in DOMAIN children : \A c \in children[p] :
             c \in DOMAIN parents /\ parents[c] = p
       /\ \A n \in nodes :
             /\ ~(n \in DOMAIN parents /\ parents[n] = n)
             /\ ~(n \in DOMAIN children /\ n \in children[n])

\* C24: swap_labels(i, j) on a state with parents[i] = j and parents[j] = i
\* returns TopologyError and leaves root, nodes, children and parents
\* unchanged, also when i or j is the root.
C24_MutualSwapLeavesTree ==
    (call.op = "swap_labels" /\ call.a # call.b
        /\ call.a \in pre.nodes /\ call.b \in pre.nodes
        /\ is_child(pre, call.a, call.b) /\ is_child(pre, call.b, call.a))
    => (result = "TopologyError" /\ Tree = pre)

\* C22: get_descendants(node) terminates for every children map over a finite
\* label set, cycles included, and the visited-set guard makes each label be
\* expanded (collect_descendants called on it) at most once.
C22_EachLabelExpandedOnce ==
    /\ [](Distinct(trav.expanded))
    /\ (trav.active ~> ~trav.active)

\* the guard at work: a label is inserted into the set once, so after the
\* first call every call is on a different label and the stack stays shallow
C22_InsertedOnce ==
    /\ Distinct(Tail(trav.expanded))
    /\ Len(trav.expanded) <= NumCorruptLabels + 1
    /\ Len(trav.stack) < MaxDepth
    /\ result = "Returned" => trav.descendants = get_descendants(Tree, call.a)

\* C22 (amended): get_descendants(node) terminates for every children map,
\* cycles included: each label is inserted into the visited set at most once,
\* so each label is expanded at most once after the first call (the start
\* label, when it lies on a cycle, a second time), and the set returned is
\* the set of labels reachable from node.
C22_GetDescendantsTerminates ==
    /\ [](trav # NoTrav => C22_InsertedOnce)
    /\ (trav.active ~> ~trav.active)

\* the traversal has returned on a map with a cycle through the start label
C22_Witness ==
    /\ result = "Returned"
    /\ ~trav.active
    /\ call.a \in trav.descendants
    /\ Len(trav.expanded) = NumCorruptLabels + 1

\* C31: on every reachable tree no call of swap_labels or prune_and_reattach,
\* whatever its arguments, panics: in the adjacent swap children[parent]
\* exists, and children[grandparent] exists whenever the parent has a parents
\* entry; in prune_and_reattach parents[node] exists whenever the three
\* precondition checks pass.
C31_NoPanic ==
    /\ call.op \in {"swap_labels", "prune_and_reattach"} => result # "Panic"
    /\ \A i \in Labels, j \in Labels :
          /\ swap_labels(Tree, i, j).res # "Panic"
          /\ prune_and_reattach(Tree, i, j).res # "Panic"
    /\ \A child \in nodes, parent \in nodes :
          (child # parent /\ is_child(Tree, child, parent))
          => /\ parent \in DOMAIN children
             /\ parent \in DOMAIN parents => parents[parent] \in DOMAIN children
    /\ \A node \in nodes, new_parent \in nodes :
          (node # new_parent /\ new_parent \notin get_descendants(Tree, node))
          => node \in DOMAIN parents

\* a prune passed its three checks and went through the unwrap, and the tree
\* it left has a node whose parent has a parent, so that an adjacent swap with
\* a grandparent can be called
C31_Witness ==
    /\ call.op = "prune_and_reattach" /\ result = "Ok"
    /\ call.a \in DOMAIN pre.parents
    /\ \E child \in nodes :
          /\ child \in DOMAIN parents
          /\ parents[child] \in DOMAIN parents
          /\ swap_labels(Tree, child, parents[child]).res = "Ok"

====
